---------------------------- MODULE Spec2Model ----------------------------
(***************************************************************************)
(* A model of mmd_uuunyaa_tools/editors/armatures/__init__.py: the pose    *)
(* utility layer (PoseUtil) and the rich armature binder                   *)
(* (RichArmatureObjectABC), together with the part of the host runtime     *)
(* (bpy) they drive: per-bone constraint stacks, the drivers of the        *)
(* armature object's animation data, custom properties and the mmd_bone    *)
(* name tags of the pose bones.                                            *)
(*                                                                         *)
(* Python strings the code inspects (constraint names, driver expressions) *)
(* are sequences of one-character strings, so that startswith and string   *)
(* concatenation are computed, not assumed.                                *)
(***************************************************************************)
EXTENDS Integers, Sequences, FiniteSets, TLC

VARIABLES
    constraints,   \* [Bones -> Seq(constraint)]: pose_bone.constraints
    drivers,       \* set of drivers of raw_object.animation_data
    props,         \* [Bones -> [PropNames -> value]]: custom properties
    name_j,        \* [Bones -> tag]: pose_bone.mmd_bone.name_j
    datapaths,     \* [ControlTypes -> DataPath or None]: self.datapaths
    mmd_bind_infos, \* Seq(MMDBindInfo): self.mmd_bind_infos
    wired,         \* history: how each influence driver was wired
    generator,     \* the generator object a call of list_constraints returned
    userStacks,    \* history: the user-authored constraints of each bone
    last           \* history: the last operation, its arguments and outcome

vars == <<constraints, drivers, props, name_j, datapaths, mmd_bind_infos, wired,
          generator, userStacks, last>>

\* No call of list_constraints has returned a generator yet.
NoGenerator == [state |-> "none"]

---------------------------------------------------------------------------
(* Bounds of the model.                                                    *)

\* Longest constraint stack a bone holds in the model.
MaxStack == 3

---------------------------------------------------------------------------
(* Python values.                                                          *)

None == "None"
NoError == "none"

\* str.startswith
StartsWith(s, prefix) ==
    /\ Len(s) >= Len(prefix)
    /\ SubSeq(s, 1, Len(prefix)) = prefix

\* The reserved name prefix tested by remove_constraints.
PREFIX == <<"m","m","d","_","u","u","u","n","y","a","a","_">>

\* The constraint names the five helpers pass to add_constraint.
NAME_COPY_TRANSFORMS ==
    <<"m","m","d","_","u","u","u","n","y","a","a","_",
      "c","o","p","y","_","t","r","a","n","s","f","o","r","m","s">>
NAME_COPY_ROTATION ==
    <<"m","m","d","_","u","u","u","n","y","a","a","_",
      "c","o","p","y","_","r","o","t","a","t","i","o","n">>
NAME_COPY_LOCATION ==
    <<"m","m","d","_","u","u","u","n","y","a","a","_",
      "c","o","p","y","_","l","o","c","a","t","i","o","n">>
NAME_COPY_SCALE ==
    <<"m","m","d","_","u","u","u","n","y","a","a","_",
      "c","o","p","y","_","s","c","a","l","e">>
NAME_IK ==
    <<"m","m","d","_","u","u","u","n","y","a","a","_","i","k","_","m","m","d">>

\* DriverVariable('mmd_uuunyaa_influence', ...)
INFLUENCE_VARIABLE_NAME ==
    <<"m","m","d","_","u","u","u","n","y","a","a","_",
      "i","n","f","l","u","e","n","c","e">>

---------------------------------------------------------------------------
(* The rig: the pose bones of raw_object.                                  *)

TargetEyeL == "target_eye_l"
TargetEyeR == "target_eye_r"
ControlEyeL == "control_eye_l"
ControlEyeR == "control_eye_r"
ControlEyes == "control_eyes"
PropBone == "prop_storage"

Bones == {TargetEyeL, TargetEyeR, ControlEyeL, ControlEyeR, ControlEyes, PropBone}

\* self.raw_object
RawObject == "raw_object"

---------------------------------------------------------------------------
(* Host runtime: constraint stacks.                                        *)

ConstraintTypes == {"COPY_TRANSFORMS", "COPY_ROTATION", "COPY_LOCATION", "COPY_SCALE", "IK"}

\* The attributes of a constraint the code assigns through setattr.
Attrs == {"target", "subtarget", "target_space", "owner_space", "mix_mode",
          "chain_count", "iterations"}

NotApplicable == "n/a"

\* Which attributes a constraint of a type has: setattr of any other one on a
\* bpy_struct raises AttributeError.
HasAttr(type, key) ==
    CASE key \in {"target", "subtarget", "target_space", "owner_space"} -> TRUE
      [] key = "mix_mode" -> type \in {"COPY_TRANSFORMS", "COPY_ROTATION"}
      [] key \in {"chain_count", "iterations"} -> type = "IK"
      [] OTHER -> FALSE

\* The names constraints.new gives (the host's type names).
DefaultName(type) ==
    CASE type = "COPY_TRANSFORMS" -> <<"C","o","p","y"," ","T","r","a","n","s","f","o","r","m","s">>
      [] type = "COPY_ROTATION" -> <<"C","o","p","y"," ","R","o","t","a","t","i","o","n">>
      [] type = "COPY_LOCATION" -> <<"C","o","p","y"," ","L","o","c","a","t","i","o","n">>
      [] type = "COPY_SCALE" -> <<"C","o","p","y"," ","S","c","a","l","e">>
      [] OTHER -> <<"I","K">>

Digits == <<"0","1","2","3","4","5","6","7","8","9">>

\* ".001", ".002", ...: the suffix the host appends to make a name unique.
NumberSuffix(k) ==
    <<".", Digits[((k \div 100) % 10) + 1], Digits[((k \div 10) % 10) + 1], Digits[(k % 10) + 1]>>

NamesOf(stack) == {stack[i].name : i \in 1..Len(stack)}

\* The host keeps constraint names unique within a stack: a name that is taken
\* gets the first free numbered suffix.
UniqueName(taken, name) ==
    IF name \notin taken THEN name
    ELSE LET k == CHOOSE n \in 1..(Cardinality(taken) + 1) :
                    /\ (name \o NumberSuffix(n)) \notin taken
                    /\ \A m \in 1..(n - 1) : (name \o NumberSuffix(m)) \in taken
         IN  name \o NumberSuffix(k)

\* constraints.new(constraint_type): a constraint with the host's defaults,
\* appended at the end of the stack.  A field the type does not have reads
\* NotApplicable (0 for the two integer fields of IK).
NewConstraint(stack, type) ==
    Append(stack,
           [type |-> type,
            name |-> UniqueName(NamesOf(stack), DefaultName(type)),
            target |-> None,
            subtarget |-> "",
            target_space |-> "WORLD",
            owner_space |-> "WORLD",
            mix_mode |-> IF HasAttr(type, "mix_mode") THEN "REPLACE" ELSE NotApplicable,
            chain_count |-> 0,
            iterations |-> IF type = "IK" THEN 500 ELSE 0])

\* constraint.name = name, for the constraint at index i.
SetName(stack, i, name) ==
    [stack EXCEPT ![i].name =
        UniqueName(NamesOf(stack) \ {stack[i].name}, name)]

\* setattr(constraint, key, value), for an attribute the constraint has.
SetAttr(con, key, value) ==
    CASE key = "target" -> [con EXCEPT !.target = value]
      [] key = "subtarget" -> [con EXCEPT !.subtarget = value]
      [] key = "target_space" -> [con EXCEPT !.target_space = value]
      [] key = "owner_space" -> [con EXCEPT !.owner_space = value]
      [] key = "mix_mode" -> [con EXCEPT !.mix_mode = value]
      [] key = "chain_count" -> [con EXCEPT !.chain_count = value]
      [] OTHER -> [con EXCEPT !.iterations = value]

RemoveAt(stack, i) == SubSeq(stack, 1, i - 1) \o SubSeq(stack, i + 1, Len(stack))


---------------------------------------------------------------------------
(* Host runtime: drivers.  A driver belongs to the animation data of the   *)
(* armature object and is found by the RNA path of the driven field, which *)
(* names the bone, the constraint and the field.                           *)

DriversAt(D, bone, cname, path) ==
    {d \in D : d.bone = bone /\ d.constraint = cname /\ d.path = path}

\* constraint.driver_add(path).driver: the driver of that field, created
\* with no variables when the field has none yet.
DriverAdd(D, bone, cname, path) ==
    IF DriversAt(D, bone, cname, path) # {} THEN D
    ELSE D \cup {[bone |-> bone, constraint |-> cname, path |-> path,
                  expression |-> <<>>, variables |-> <<>>]}

\* constraint.driver_remove(path)
DriverRemove(D, bone, cname, path) == D \ DriversAt(D, bone, cname, path)

\* A removal that leaves the drivers of the removed constraint behind.
ConstraintsRemoveKeepingDrivers(w, bone, i) ==
    [w EXCEPT !.c[bone] = RemoveAt(w.c[bone], i)]

\* pose_bone.constraints.remove(constraint): the host unlinks the constraint
\* and deletes the drivers of its fields.
ConstraintsRemove(w, bone, i) ==
    [w EXCEPT !.c[bone] = RemoveAt(w.c[bone], i),
              !.d = {d \in w.d : ~(d.bone = bone /\ d.constraint = w.c[bone][i].name)}]

---------------------------------------------------------------------------
(* class PoseUtil.  Each operator maps a world w = [c, d, raised] (the     *)
(* constraint stacks, the drivers, the exception that ended the call) to   *)
(* the world the call leaves.                                              *)

World(c, d) == [c |-> c, d |-> d, raised |-> NoError]

DriverVariable(name, target, data_path) ==
    [name |-> name, target |-> target, data_path |-> data_path]

\* PoseUtil.add_driver
add_driver(D, bone, cname, driver_path, driver_expression, driver_variables) ==
    LET D1 == DriverAdd(D, bone, cname, driver_path)
        driver == CHOOSE d \in DriversAt(D1, bone, cname, driver_path) : TRUE
    IN  (D1 \ {driver}) \cup
        {[driver EXCEPT !.variables = driver.variables \o driver_variables,
                        !.expression = driver_expression]}

\* An expression that leaves the inversion out.
InfluenceExpressionNeverInverted(invert_influence, name) == <<"+">> \o name

\* ('1-' if invert_influence else '+') + variable.name
InfluenceExpression(invert_influence, name) ==
    (IF invert_influence THEN <<"1", "-">> ELSE <<"+">>) \o name

\* PoseUtil.add_influence_driver
add_influence_driver(D, bone, cname, target, data_path, invert_influence) ==
    LET variable == DriverVariable(INFLUENCE_VARIABLE_NAME, target, data_path)
    IN  add_driver(D, bone, cname, "influence",
                   InfluenceExpression(invert_influence, variable.name),
                   <<variable>>)

\* An update that adds the new driver without removing the old one.
update_influence_driverStacking(D, bone, cname, target, data_path, invert_influence) ==
    add_influence_driver(D, bone, cname, target, data_path, invert_influence)

\* PoseUtil.update_influence_driver
update_influence_driver(D, bone, cname, target, data_path, invert_influence) ==
    add_influence_driver(DriverRemove(D, bone, cname, "influence"),
                         bone, cname, target, data_path, invert_influence)

\* for key, value in kwargs.items(): setattr(constraint, key, value)
\* kwargs is the sequence of <<key, value>> pairs in keyword order; the loop
\* stops at the first attribute the constraint does not have.
RECURSIVE SetAttrs(_, _, _)
SetAttrs(con, kwargs, k) ==
    IF k > Len(kwargs) THEN [con |-> con, raised |-> NoError]
    ELSE IF ~HasAttr(con.type, kwargs[k][1])
         THEN [con |-> con, raised |-> "AttributeError"]
         ELSE SetAttrs(SetAttr(con, kwargs[k][1], kwargs[k][2]), kwargs, k + 1)

\* An add_constraint that leaves the constraint under the name the host gave.
add_constraintUnnamed(w, bone, constraint_type, name, kwargs) ==
    LET created == NewConstraint(w.c[bone], constraint_type)
        set == SetAttrs(created[Len(created)], kwargs, 1)
    IN  [w EXCEPT !.c[bone] = [created EXCEPT ![Len(created)] = set.con],
                  !.raised = set.raised]

\* PoseUtil.add_constraint
add_constraint(w, bone, constraint_type, name, kwargs) ==
    LET created == NewConstraint(w.c[bone], constraint_type)
        named == SetName(created, Len(created), name)
        set == SetAttrs(named[Len(named)], kwargs, 1)
    IN  [w EXCEPT !.c[bone] = [named EXCEPT ![Len(named)] = set.con],
                  !.raised = set.raised]

\* The keywords of a call f(a, b, k1=.., **kwargs) must be pairwise distinct
\* and must not name a parameter already bound by position: Python raises
\* TypeError before the callee runs.
KeysOf(kwargs) == {kwargs[k][1] : k \in 1..Len(kwargs)}

AddConstraintPositional == {"pose_bone", "constraint_type", "name"}

CallRaisesTypeError(explicit, kwargs) ==
    KeysOf(kwargs) \cap (KeysOf(explicit) \cup AddConstraintPositional) # {}

\* The body shared by the four copy helpers: they differ in the constraint
\* type and name only.
CopyHelper(w, constraint_type, name, bone, target_object, subtarget, space, influence_data_path, invert_influence, kwargs) ==
    LET explicit == << <<"target", target_object>>, <<"subtarget", subtarget>>,
                       <<"target_space", space>>, <<"owner_space", space>> >>
        w1 == add_constraint(w, bone, constraint_type, name, explicit \o kwargs)
        constraint == w1.c[bone][Len(w1.c[bone])]
    IN  IF CallRaisesTypeError(explicit, kwargs) THEN [w EXCEPT !.raised = "TypeError"]
        ELSE IF w1.raised # NoError THEN w1
        ELSE [w1 EXCEPT !.d = add_influence_driver(w1.d, bone, constraint.name,
                                  target_object, influence_data_path, invert_influence)]

\* PoseUtil.add_copy_transforms_constraint
add_copy_transforms_constraint(w, bone, target_object, subtarget, space, influence_data_path, invert_influence, kwargs) ==
    CopyHelper(w, "COPY_TRANSFORMS", NAME_COPY_TRANSFORMS, bone, target_object,
               subtarget, space, influence_data_path, invert_influence, kwargs)

\* PoseUtil.add_copy_rotation_constraint
add_copy_rotation_constraint(w, bone, target_object, subtarget, space, influence_data_path, invert_influence, kwargs) ==
    CopyHelper(w, "COPY_ROTATION", NAME_COPY_ROTATION, bone, target_object,
               subtarget, space, influence_data_path, invert_influence, kwargs)

\* PoseUtil.add_copy_location_constraint
add_copy_location_constraint(w, bone, target_object, subtarget, space, influence_data_path, invert_influence, kwargs) ==
    CopyHelper(w, "COPY_LOCATION", NAME_COPY_LOCATION, bone, target_object,
               subtarget, space, influence_data_path, invert_influence, kwargs)

\* PoseUtil.add_copy_scale_constraint
add_copy_scale_constraint(w, bone, target_object, subtarget, space, influence_data_path, invert_influence, kwargs) ==
    CopyHelper(w, "COPY_SCALE", NAME_COPY_SCALE, bone, target_object,
               subtarget, space, influence_data_path, invert_influence, kwargs)

\* PoseUtil.add_ik_constraint
add_ik_constraint(w, bone, target_object, subtarget, influence_data_path, chain_count, iterations, invert_influence, kwargs) ==
    LET explicit == << <<"target", target_object>>, <<"subtarget", subtarget>>,
                       <<"chain_count", chain_count>>, <<"iterations", iterations>> >>
        w1 == add_constraint(w, bone, "IK", NAME_IK, explicit \o kwargs)
        constraint == w1.c[bone][Len(w1.c[bone])]
    IN  IF CallRaisesTypeError(explicit, kwargs) THEN [w EXCEPT !.raised = "TypeError"]
        ELSE IF w1.raised # NoError THEN w1
        ELSE [w1 EXCEPT !.d = add_influence_driver(w1.d, bone, constraint.name,
                                  target_object, influence_data_path, invert_influence)]

\* A prefix test that forgets the trailing underscore of the reserved prefix.
HasReservedPrefixLoose(name) == StartsWith(name, SubSeq(PREFIX, 1, Len(PREFIX) - 1))

\* constraint.name.startswith('mmd_uuunyaa_')
HasReservedPrefix(name) == StartsWith(name, PREFIX)

\* An iterator that counts positions, as that of a Python list does: after a
\* removal it steps over the constraint that moved into the freed position.
IterNextByIndex(i, removed) == i + 1

\* The collection iterator of the host (for constraint in
\* pose_bone.constraints) advances to the successor link before it hands the
\* current constraint to the loop body, so that unlinking the current
\* constraint in the body leaves the iterator on the successor: when the
\* constraint at index i was removed the successor is at index i, else at
\* index i + 1.
IterNext(i, removed) == IF removed THEN i ELSE i + 1

\* The inner loop of PoseUtil.remove_constraints on one bone; i is the stack
\* index of the constraint the iterator hands out.
RECURSIVE RemoveLoop(_, _, _)
RemoveLoop(w, bone, i) ==
    IF i > Len(w.c[bone]) THEN w
    ELSE IF ~HasReservedPrefix(w.c[bone][i].name)
         THEN RemoveLoop(w, bone, IterNext(i, FALSE))
         ELSE RemoveLoop(ConstraintsRemove(w, bone, i), bone, IterNext(i, TRUE))

\* PoseUtil.remove_constraints: the bones are handled one after another and
\* a bone's loop touches only that bone's stack and drivers.
RECURSIVE remove_constraints(_, _)
remove_constraints(w, pose_bones) ==
    IF pose_bones = {} THEN w
    ELSE LET pose_bone == CHOOSE b \in pose_bones : TRUE
         IN  remove_constraints(RemoveLoop(w, pose_bone, 1), pose_bones \ {pose_bone})

---------------------------------------------------------------------------
(* class DataPath and class ControlType.                                   *)

ControlTypes ==
    {"EYE_MMD_UUUNYAA", "BIND_MMD_UUUNYAA", "LEG_L_MMD_UUUNYAA", "LEG_R_MMD_UUUNYAA",
     "TOE_L_MMD_UUUNYAA", "TOE_R_MMD_UUUNYAA", "TORSO_NECK_FOLLOW", "TORSO_HEAD_FOLLOW",
     "ARM_L_IK_FK", "ARM_R_IK_FK", "ARM_L_IK_STRETCH", "ARM_R_IK_STRETCH",
     "ARM_L_IK_PARENT", "ARM_R_IK_PARENT", "ARM_L_POLE_VECTOR", "ARM_R_POLE_VECTOR",
     "LEG_L_IK_FK", "LEG_R_IK_FK", "LEG_L_IK_STRETCH", "LEG_R_IK_STRETCH",
     "LEG_L_IK_PARENT", "LEG_R_IK_PARENT", "LEG_L_POLE_VECTOR", "LEG_R_POLE_VECTOR",
     "LEG_L_POLE_PARENT", "LEG_R_POLE_PARENT"}

DataPath(bone_name, prop_name) == [bone_name |-> bone_name, prop_name |-> prop_name]

\* DataPath.data_path: f'["{self.bone_name}"]["{self.prop_name}"]', as the
\* sequence of its pieces.
data_path(dp) == <<"[\"", dp.bone_name, "\"]", "[\"", dp.prop_name, "\"]">>

\* self.datapaths is a dictionary: a function whose domain is the set of its
\* keys.  dict.get(key) is None exactly for a key out of the domain, and
\* dict[key] raises KeyError for it.
HasKey(dict, key) == key \in DOMAIN dict

---------------------------------------------------------------------------
(* class RichArmatureObjectABC.                                            *)

\* A binding that takes the control eye bones of the other side.
_add_eye_constraintsCrossed(w, dps, target_eye_l_bone, target_eye_r_bone, control_eye_l_bone, control_eye_r_bone, control_eyes_bone) ==
    IF ~HasKey(dps, "EYE_MMD_UUUNYAA") THEN [w EXCEPT !.raised = "KeyError"]
    ELSE
    LET eye_mmd_uuunyaa_data_path == <<"pose.bones">> \o data_path(dps["EYE_MMD_UUUNYAA"])
        w1 == add_copy_rotation_constraint(w, target_eye_l_bone, RawObject,
                  control_eye_r_bone, "LOCAL", eye_mmd_uuunyaa_data_path, TRUE, <<>>)
        w2 == add_copy_rotation_constraint(w1, target_eye_r_bone, RawObject,
                  control_eye_l_bone, "LOCAL", eye_mmd_uuunyaa_data_path, TRUE, <<>>)
        w3 == add_copy_rotation_constraint(w2, control_eye_l_bone, RawObject,
                  control_eyes_bone, "LOCAL", eye_mmd_uuunyaa_data_path, TRUE,
                  << <<"mix_mode", "ADD">> >>)
    IN  add_copy_rotation_constraint(w3, control_eye_r_bone, RawObject,
            control_eyes_bone, "LOCAL", eye_mmd_uuunyaa_data_path, TRUE,
            << <<"mix_mode", "ADD">> >>)

\* RichArmatureObjectABC._add_eye_constraints.  self.datapaths[...] raises
\* KeyError for a control the registry does not hold; an exception of one of
\* the four helper calls ends the procedure.
_add_eye_constraints(w, dps, target_eye_l_bone, target_eye_r_bone, control_eye_l_bone, control_eye_r_bone, control_eyes_bone) ==
    IF ~HasKey(dps, "EYE_MMD_UUUNYAA") THEN [w EXCEPT !.raised = "KeyError"]
    ELSE
    LET eye_mmd_uuunyaa_data_path == <<"pose.bones">> \o data_path(dps["EYE_MMD_UUUNYAA"])
        w1 == add_copy_rotation_constraint(w, target_eye_l_bone, RawObject,
                  control_eye_l_bone, "LOCAL", eye_mmd_uuunyaa_data_path, TRUE, <<>>)
        w2 == add_copy_rotation_constraint(w1, target_eye_r_bone, RawObject,
                  control_eye_r_bone, "LOCAL", eye_mmd_uuunyaa_data_path, TRUE, <<>>)
        w3 == add_copy_rotation_constraint(w2, control_eye_l_bone, RawObject,
                  control_eyes_bone, "LOCAL", eye_mmd_uuunyaa_data_path, TRUE,
                  << <<"mix_mode", "ADD">> >>)
        w4 == add_copy_rotation_constraint(w3, control_eye_r_bone, RawObject,
                  control_eyes_bone, "LOCAL", eye_mmd_uuunyaa_data_path, TRUE,
                  << <<"mix_mode", "ADD">> >>)
    IN  IF w1.raised # NoError THEN w1
        ELSE IF w2.raised # NoError THEN w2
        ELSE IF w3.raised # NoError THEN w3
        ELSE w4

---------------------------------------------------------------------------
(* Rig variants: the registry (datapaths) a concrete rig class declares.   *)

\* The property name a control is stored under on the storage bone.
PropName(control_type) == control_type

\* The registry of a rig that supports the given controls: each is stored as
\* a custom property of the storage bone.
Registry(controls) == [ct \in controls |-> DataPath(PropBone, PropName(ct))]

\* A rig with face bones: it has the eye-tracking control.
FaceRig == Registry({"EYE_MMD_UUUNYAA", "BIND_MMD_UUUNYAA"})

\* A rig without face bones: no entry for the eye-tracking control.
NoFaceRig == Registry({"BIND_MMD_UUUNYAA"})

---------------------------------------------------------------------------
(* Specification Spec: the life of the constraint stacks of one rig.  The  *)
(* binder authors constraints through the helpers and the eye binding, the *)
(* user authors constraints of their own in the host's editor, and         *)
(* remove_constraints and a re-bind clean up.                              *)

IsEngine(con) == StartsWith(con.name, PREFIX)
IsUser(con) == ~IsEngine(con)

EngineOf(stack) == SelectSeq(stack, IsEngine)
UserOf(stack) == SelectSeq(stack, IsUser)

\* Two engine-authored constraints next to each other in a stack.
HasAdjacentEngine(stack) ==
    \E i \in 1..(Len(stack) - 1) : IsEngine(stack[i]) /\ IsEngine(stack[i + 1])

\* The constraints a user authors: of kinds the engine authors too, under
\* names close to the reserved prefix (its trailing underscore missing,
\* another case).
UserConstraints ==
    {[type |-> "COPY_ROTATION",
      name |-> <<"m","m","d","_","u","u","u","n","y","a","a">>],
     [type |-> "IK",
      name |-> <<"M","m","d","_","u","u","u","n","y","a","a","_","i","k">>]}

\* The bone the binder stacks helper constraints on, and what it binds to.
HelperBones == {ControlEyeL}
HelperSubtarget == ControlEyes

\* The data path of the bind control, which every rig variant has.
BindDataPath == <<"pose.bones">> \o data_path(FaceRig["BIND_MMD_UUUNYAA"])

Op(op, raised, args) == [op |-> op, raised |-> raised, args |-> args]

\* The state a PoseUtil call leaves: the world it returns, and the record of
\* the call.
Commit(w, op, args) ==
    /\ constraints' = w.c
    /\ drivers' = w.d
    /\ last' = Op(op, w.raised, args)
    /\ UNCHANGED <<props, name_j, datapaths, mmd_bind_infos, wired, userStacks, generator>>

Now == World(constraints, drivers)

HasRoom(bone) == Len(constraints[bone]) < MaxStack

Init ==
    /\ constraints = [b \in Bones |-> <<>>]
    /\ drivers = {}
    /\ props = [b \in Bones |-> <<>>]
    /\ name_j = [b \in Bones |-> ""]
    /\ mmd_bind_infos = <<>>
    /\ wired = {}
    /\ generator = NoGenerator
    /\ datapaths \in {FaceRig, NoFaceRig}
    /\ userStacks = [b \in Bones |-> <<>>]
    /\ last = Op("init", NoError, {})

AddCopyTransforms ==
    \E bone \in HelperBones :
        /\ HasRoom(bone)
        /\ Commit(add_copy_transforms_constraint(Now, bone, RawObject, HelperSubtarget,
                      "WORLD", BindDataPath, FALSE, <<>>),
                  "add_copy_transforms_constraint", {bone})

AddCopyRotation ==
    \E bone \in HelperBones :
        /\ HasRoom(bone)
        /\ Commit(add_copy_rotation_constraint(Now, bone, RawObject, HelperSubtarget,
                      "WORLD", BindDataPath, FALSE, <<>>),
                  "add_copy_rotation_constraint", {bone})

AddCopyLocation ==
    \E bone \in HelperBones :
        /\ HasRoom(bone)
        /\ Commit(add_copy_location_constraint(Now, bone, RawObject, HelperSubtarget,
                      "WORLD", BindDataPath, FALSE, <<>>),
                  "add_copy_location_constraint", {bone})

AddCopyScale ==
    \E bone \in HelperBones :
        /\ HasRoom(bone)
        /\ Commit(add_copy_scale_constraint(Now, bone, RawObject, HelperSubtarget,
                      "WORLD", BindDataPath, FALSE, <<>>),
                  "add_copy_scale_constraint", {bone})

AddIk ==
    \E bone \in HelperBones :
        /\ HasRoom(bone)
        /\ Commit(add_ik_constraint(Now, bone, RawObject, HelperSubtarget,
                      BindDataPath, 2, 200, FALSE, <<>>),
                  "add_ik_constraint", {bone})

\* The user adds a constraint of their own in the host's constraint editor
\* and names it (any name that does not carry the reserved prefix).
UserAddConstraint ==
    \E bone \in HelperBones, user \in UserConstraints :
        /\ HasRoom(bone)
        /\ LET created == NewConstraint(constraints[bone], user.type)
               named == SetName(created, Len(created), user.name)
           IN  /\ constraints' = [constraints EXCEPT ![bone] = named]
               /\ userStacks' = [userStacks EXCEPT
                                    ![bone] = Append(@, named[Len(named)])]
        /\ last' = Op("user_add_constraint", NoError, {bone})
        /\ UNCHANGED <<drivers, props, name_j, datapaths, mmd_bind_infos, wired, generator>>

\* What a call of remove_constraints found: the bones passed, and those of
\* them that held adjacent engine-authored constraints.
RemoveArgs(pose_bones) ==
    [pose_bones |-> pose_bones,
     adjacent |-> {b \in pose_bones : HasAdjacentEngine(constraints[b])}]

\* The dictionaries of pose bones remove_constraints is called with.
RemoveChoices == {{}, {ControlEyeL}, Bones}

RemoveConstraints ==
    \E pose_bones \in RemoveChoices :
        /\ pose_bones \subseteq Bones
        /\ Commit(remove_constraints(Now, pose_bones), "remove_constraints",
                  RemoveArgs(pose_bones))

AddEyeConstraints ==
    /\ \A b \in {TargetEyeL, TargetEyeR, ControlEyeL, ControlEyeR} : HasRoom(b)
    /\ Commit(_add_eye_constraints(Now, datapaths, TargetEyeL, TargetEyeR,
                                   ControlEyeL, ControlEyeR, ControlEyes),
              "_add_eye_constraints", {})

\* The bind pass run again on a bound rig: the engine-authored constraints
\* are removed from every pose bone, then the binding is authored anew.
Rebind ==
    /\ \A b \in Bones : Len(userStacks[b]) < MaxStack
    /\ Commit(_add_eye_constraints(remove_constraints(Now, Bones), datapaths,
                                   TargetEyeL, TargetEyeR,
                                   ControlEyeL, ControlEyeR, ControlEyes),
              "rebind", RemoveArgs(Bones))

Next ==
    \/ AddCopyTransforms
    \/ AddCopyRotation
    \/ AddCopyLocation
    \/ AddCopyScale
    \/ AddIk
    \/ UserAddConstraint
    \/ RemoveConstraints
    \/ AddEyeConstraints
    \/ Rebind

Spec == Init /\ [][Next]_vars

---------------------------------------------------------------------------
(* Properties of Spec.                                                     *)

\* C1: when remove_constraints returns, no constraint whose name starts
\* with 'mmd_uuunyaa_' remains on any bone that was passed, whatever the
\* stack held (engine-authored constraints adjacent to each other, user
\* constraints between them); a passed bone with no such constraint keeps
\* its stack as it was; no error is raised.
C1_Step ==
    (last'.op = "remove_constraints") =>
        /\ last'.raised = NoError
        /\ \A b \in last'.args.pose_bones :
              /\ EngineOf(constraints'[b]) = <<>>
              /\ (EngineOf(constraints[b]) = <<>> => constraints'[b] = constraints[b])

C1_RemoveConstraintsTotal == [][C1_Step]_vars

\* remove_constraints has returned from a bone that held adjacent
\* engine-authored constraints and user-authored ones.
C1_Witness ==
    /\ last.op = "remove_constraints"
    /\ last.raised = NoError
    /\ ControlEyeL \in last.args.adjacent
    /\ userStacks[ControlEyeL] # <<>>
    /\ EngineOf(constraints[ControlEyeL]) = <<>>

\* C2: the user-authored constraints of every bone (those whose name lacks
\* the reserved prefix) stay what the user made them, in order, field by
\* field, through every helper call, binding and removal, also when they are
\* of a kind the engine authors; and remove_constraints leaves the whole
\* stack of every bone it was not passed.
C2_Frame ==
    (last'.op = "remove_constraints") =>
        \A b \in Bones \ last'.args.pose_bones : constraints'[b] = constraints[b]

C2_UserConstraintsKept ==
    /\ [](\A b \in Bones : UserOf(constraints[b]) = userStacks[b])
    /\ [][C2_Frame]_vars

\* remove_constraints removed stacked engine constraints from a bone that
\* holds user constraints of both kinds, and was not passed a bone that
\* holds an engine-authored constraint.
C2_Witness ==
    /\ last.op = "remove_constraints"
    /\ last.args.pose_bones = {ControlEyeL}
    /\ ControlEyeL \in last.args.adjacent
    /\ Len(userStacks[ControlEyeL]) >= 1
    /\ constraints[ControlEyeL] = userStacks[ControlEyeL]
    /\ EngineOf(constraints[TargetEyeL]) # <<>>

\* The rig as the user left it, before any binding.
Pristine == World(userStacks, {})

C8_Step ==
    (last'.op = "_add_eye_constraints" /\ ~HasKey(datapaths, "EYE_MMD_UUUNYAA")) =>
        /\ last'.raised = NoError
        /\ constraints' = constraints
        /\ drivers' = drivers

C8_EyeBindingSkips == [][C8_Step]_vars

---------------------------------------------------------------------------
(* Specification SpecHelpers: the five authoring helpers called with the   *)
(* spaces and the extra keyword parameters a caller may pass.              *)

\* Longest stack the helpers build in SpecHelpers.
MaxHelperStack == 2

\* The space argument: both differ from the host's default, 'WORLD'.
Spaces == {"LOCAL", "POSE"}

\* The extra keyword parameters (**kwargs) of a helper call: none; one the
\* copy-rotation and copy-transforms constraints have; one the helper passes
\* itself; the name parameter of add_constraint.
KwargsChoices ==
    {<<>>,
     << <<"mix_mode", "ADD">> >>,
     << <<"owner_space", "LOCAL">> >>,
     << <<"name", <<"m","i","n","e">> >> >>}

HelperArgs(bone, space, kwargs) == [bone |-> bone, space |-> space, kwargs |-> kwargs]

\* A constraint the user made before the binder ran.
UserStack ==
    LET created == NewConstraint(<<>>, "COPY_ROTATION")
    IN  SetName(created, 1, <<"m","m","d","_","u","u","u","n","y","a","a">>)

InitHelpers ==
    /\ \E stack \in {<<>>, UserStack} :
          /\ constraints = [b \in Bones |-> IF b = ControlEyeL THEN stack ELSE <<>>]
          /\ userStacks = [b \in Bones |-> IF b = ControlEyeL THEN stack ELSE <<>>]
    /\ drivers = {}
    /\ props = [b \in Bones |-> <<>>]
    /\ name_j = [b \in Bones |-> ""]
    /\ mmd_bind_infos = <<>>
    /\ wired = {}
    /\ generator = NoGenerator
    /\ datapaths = FaceRig
    /\ last = Op("init", NoError, {})

HelperHasRoom(bone) == Len(constraints[bone]) < MaxHelperStack

CallCopyTransforms ==
    \E bone \in HelperBones, space \in Spaces, kwargs \in KwargsChoices :
        /\ HelperHasRoom(bone)
        /\ Commit(add_copy_transforms_constraint(Now, bone, RawObject, HelperSubtarget,
                      space, BindDataPath, FALSE, kwargs),
                  "add_copy_transforms_constraint", HelperArgs(bone, space, kwargs))

CallCopyRotation ==
    \E bone \in HelperBones, space \in Spaces, kwargs \in KwargsChoices :
        /\ HelperHasRoom(bone)
        /\ Commit(add_copy_rotation_constraint(Now, bone, RawObject, HelperSubtarget,
                      space, BindDataPath, FALSE, kwargs),
                  "add_copy_rotation_constraint", HelperArgs(bone, space, kwargs))

CallCopyLocation ==
    \E bone \in HelperBones, space \in Spaces, kwargs \in KwargsChoices :
        /\ HelperHasRoom(bone)
        /\ Commit(add_copy_location_constraint(Now, bone, RawObject, HelperSubtarget,
                      space, BindDataPath, FALSE, kwargs),
                  "add_copy_location_constraint", HelperArgs(bone, space, kwargs))

CallCopyScale ==
    \E bone \in HelperBones, space \in Spaces, kwargs \in KwargsChoices :
        /\ HelperHasRoom(bone)
        /\ Commit(add_copy_scale_constraint(Now, bone, RawObject, HelperSubtarget,
                      space, BindDataPath, FALSE, kwargs),
                  "add_copy_scale_constraint", HelperArgs(bone, space, kwargs))

CallIk ==
    \E bone \in HelperBones, kwargs \in KwargsChoices :
        /\ HelperHasRoom(bone)
        /\ Commit(add_ik_constraint(Now, bone, RawObject, HelperSubtarget,
                      BindDataPath, 2, 200, FALSE, kwargs),
                  "add_ik_constraint", HelperArgs(bone, NotApplicable, kwargs))

NextHelpers ==
    \/ CallCopyTransforms
    \/ CallCopyRotation
    \/ CallCopyLocation
    \/ CallCopyScale
    \/ CallIk

SpecHelpers == InitHelpers /\ [][NextHelpers]_vars

---------------------------------------------------------------------------
(* Properties of SpecHelpers.                                              *)

CopyOps ==
    {"add_copy_transforms_constraint", "add_copy_rotation_constraint",
     "add_copy_location_constraint", "add_copy_scale_constraint"}

HelperOps == CopyOps \cup {"add_ik_constraint"}

ExpectedType(op) ==
    CASE op = "add_copy_transforms_constraint" -> "COPY_TRANSFORMS"
      [] op = "add_copy_rotation_constraint" -> "COPY_ROTATION"
      [] op = "add_copy_location_constraint" -> "COPY_LOCATION"
      [] op = "add_copy_scale_constraint" -> "COPY_SCALE"
      [] OTHER -> "IK"

\* The helper call of this step appended exactly one constraint of its kind
\* at the end of the bone's stack, named with the reserved prefix, in the
\* space asked for, and changed no other constraint.
C4_AppendedOne ==
    LET b == last'.args.bone
        old == constraints[b]
        new == constraints'[b]
    IN  /\ Len(new) = Len(old) + 1
        /\ SubSeq(new, 1, Len(old)) = old
        /\ Len(new[Len(new)].name) >= 12
        /\ SubSeq(new[Len(new)].name, 1, 12) =
               <<"m","m","d","_","u","u","u","n","y","a","a","_">>
        /\ new[Len(new)].type = ExpectedType(last'.op)
        /\ (last'.op \in CopyOps =>
               /\ new[Len(new)].target_space = last'.args.space
               /\ new[Len(new)].owner_space = last'.args.space)
        /\ \A other \in Bones \ {b} : constraints'[other] = constraints[other]

\* The extra keywords of the call repeat a keyword the helper passes to
\* add_constraint itself, or name one of add_constraint's own parameters.
C4_RepeatsKeyword ==
    \E k \in 1..Len(last'.args.kwargs) :
        last'.args.kwargs[k][1] \in
            {"pose_bone", "constraint_type", "name", "target", "subtarget"}
            \cup (IF last'.op \in CopyOps THEN {"target_space", "owner_space"}
                  ELSE {"chain_count", "iterations"})

C4_Step ==
    (last'.op \in HelperOps) =>
        IF C4_RepeatsKeyword
        THEN /\ last'.raised = "TypeError"
             /\ constraints' = constraints
             /\ drivers' = drivers
        ELSE C4_AppendedOne

---------------------------------------------------------------------------
(* Specification SpecDrivers: the influence drivers of two constraints the *)
(* helpers authored on one bone, re-wired by add_influence_driver and      *)
(* update_influence_driver.                                                *)

\* Most variables add_influence_driver stacks on one driver in SpecDrivers.
MaxVariables == 3

EyeDataPath == <<"pose.bones">> \o data_path(FaceRig["EYE_MMD_UUUNYAA"])

\* The data paths a caller wires an influence to.
InfluenceDataPaths == {BindDataPath, EyeDataPath}

\* The bone of SpecDrivers after the binder authored two constraints on it.
Authored ==
    add_ik_constraint(
        add_copy_rotation_constraint(World([b \in Bones |-> <<>>], {}), ControlEyeL,
            RawObject, HelperSubtarget, "LOCAL", BindDataPath, FALSE, <<>>),
        ControlEyeL, RawObject, HelperSubtarget, BindDataPath, 2, 200, TRUE, <<>>)

InitDrivers ==
    /\ constraints = Authored.c
    /\ drivers = Authored.d
    /\ props = [b \in Bones |-> <<>>]
    /\ name_j = [b \in Bones |-> ""]
    /\ mmd_bind_infos = <<>>
    /\ wired = {}
    /\ generator = NoGenerator
    /\ datapaths = FaceRig
    /\ userStacks = [b \in Bones |-> <<>>]
    /\ last = Op("init", NoError, {})

\* How many variables the driver of a constraint's influence has (0 when the
\* influence has no driver).
VariableCount(D, bone, cname) ==
    IF DriversAt(D, bone, cname, "influence") = {} THEN 0
    ELSE Len((CHOOSE d \in DriversAt(D, bone, cname, "influence") : TRUE).variables)

DriverArgs(bone, cname, target, path, invert_influence) ==
    [bone |-> bone, constraint |-> cname, target |-> target, data_path |-> path,
     invert_influence |-> invert_influence,
     stacked |-> VariableCount(drivers, bone, cname)]

CallAddInfluenceDriver ==
    \E bone \in HelperBones, path \in InfluenceDataPaths, invert_influence \in BOOLEAN :
        \E i \in 1..Len(constraints[bone]) :
            /\ VariableCount(drivers, bone, constraints[bone][i].name) < MaxVariables
            /\ drivers' = add_influence_driver(drivers, bone, constraints[bone][i].name,
                                               RawObject, path, invert_influence)
            /\ last' = Op("add_influence_driver", NoError,
                          DriverArgs(bone, constraints[bone][i].name, RawObject, path,
                                     invert_influence))
            /\ UNCHANGED <<constraints, props, name_j, datapaths, mmd_bind_infos, wired,
                         userStacks, generator>>

CallUpdateInfluenceDriver ==
    \E bone \in HelperBones, path \in InfluenceDataPaths, invert_influence \in BOOLEAN :
        \E i \in 1..Len(constraints[bone]) :
            /\ drivers' = update_influence_driver(drivers, bone, constraints[bone][i].name,
                                                  RawObject, path, invert_influence)
            /\ last' = Op("update_influence_driver", NoError,
                          DriverArgs(bone, constraints[bone][i].name, RawObject, path,
                                     invert_influence))
            /\ UNCHANGED <<constraints, props, name_j, datapaths, mmd_bind_infos, wired,
                         userStacks, generator>>

NextDrivers ==
    \/ CallAddInfluenceDriver
    \/ CallUpdateInfluenceDriver

SpecDrivers == InitDrivers /\ [][NextDrivers]_vars

---------------------------------------------------------------------------
(* Properties of SpecDrivers.                                              *)

\* The drivers of any field of a constraint.
DriversOfConstraint(bone, cname) ==
    {d \in drivers : d.bone = bone /\ d.constraint = cname}

\* C5: once update_influence_driver has run on a constraint that
\* add_influence_driver was called on before (once or several times), the
\* constraint has exactly one driver, on its influence, with exactly one
\* variable, named 'mmd_uuunyaa_influence', reading the target and data path
\* of that last call, and the expression of that call's invert flag
\* ('1-mmd_uuunyaa_influence' or '+mmd_uuunyaa_influence').
C5_UpdateReplacesDriver ==
    (last.op = "update_influence_driver") =>
        /\ Cardinality(DriversOfConstraint(last.args.bone, last.args.constraint)) = 1
        /\ \A d \in DriversOfConstraint(last.args.bone, last.args.constraint) :
              /\ d.path = "influence"
              /\ Len(d.variables) = 1
              /\ d.variables[1].name =
                     <<"m","m","d","_","u","u","u","n","y","a","a","_",
                       "i","n","f","l","u","e","n","c","e">>
              /\ d.variables[1].target = last.args.target
              /\ d.variables[1].data_path = last.args.data_path
              /\ d.expression =
                     IF last.args.invert_influence
                     THEN <<"1","-","m","m","d","_","u","u","u","n","y","a","a","_",
                            "i","n","f","l","u","e","n","c","e">>
                     ELSE <<"+","m","m","d","_","u","u","u","n","y","a","a","_",
                            "i","n","f","l","u","e","n","c","e">>

\* update_influence_driver ran on a constraint whose driver had been given a
\* second variable by a repeated add_influence_driver, and changed both the
\* data path and the inversion.
C5_Witness ==
    /\ last.op = "update_influence_driver"
    /\ last.args.stacked >= 2
    /\ last.args.constraint = NAME_COPY_ROTATION
    /\ last.args.data_path = EyeDataPath
    /\ last.args.invert_influence


---------------------------------------------------------------------------
(* RichArmatureObjectABC.assign_mmd_bone_names.  A Python dict is a        *)
(* sequence of <<key, value>> pairs with distinct keys, in insertion       *)
(* order: assigning to a key it holds replaces the value in place,         *)
(* assigning to a new key appends.                                         *)

\* Standard (MMD) bone names of MMDBoneInfo, romanised: '両目', '左目', '右目'
\* and '頭'.
Ryoume == "ryoume"
Hidarime == "hidarime"
Migime == "migime"
Atama == "atama"

\* A pose bone name no pose bone of the rig has.
MissingBone == "missing_bone"

\* class MMDBindInfo, by the two fields assign_mmd_bone_names reads.
MMDBindInfo(mmd_bone_name, pose_bone_name) ==
    [mmd_bone_name |-> mmd_bone_name, pose_bone_name |-> pose_bone_name]

\* dict.setdefault(key, value): a key the dict holds keeps its value.
DictSetDefault(dict, key, value) ==
    IF \E i \in 1..Len(dict) : dict[i][1] = key
    THEN dict
    ELSE Append(dict, <<key, value>>)

\* dict[key] = value
DictSet(dict, key, value) ==
    IF \E i \in 1..Len(dict) : dict[i][1] = key
    THEN [i \in 1..Len(dict) |-> IF dict[i][1] = key THEN <<key, value>> ELSE dict[i]]
    ELSE Append(dict, <<key, value>>)

\* dict.update(items), and the dict comprehension, from the k-th item on.
RECURSIVE DictUpdate(_, _, _)
DictUpdate(dict, items, k) ==
    IF k > Len(items) THEN dict
    ELSE DictUpdate(DictSet(dict, items[k][1], items[k][2]), items, k + 1)

\* key in dict
DictKeys(dict) == {dict[i][1] : i \in 1..Len(dict)}

\* The optional overrides argument: None, or a dict.
NoOverrides == [is_none |-> TRUE, items |-> <<>>]
Overrides(items) == [is_none |-> FALSE, items |-> items]

\* Lines 490-493: the descriptor mapping, then the overrides merged in.
mmd_bone_name2pose_bone_names(infos, overrides) ==
    LET pairs == [i \in 1..Len(infos) |->
                     <<infos[i].mmd_bone_name, infos[i].pose_bone_name>>]
        from_infos == DictUpdate(<<>>, pairs, 1)
    IN  IF overrides.is_none THEN from_infos
        ELSE DictUpdate(from_infos, overrides.items, 1)

\* An assignment without the clearing loop.
ClearNamesSkipped(nj, pose_bones, mapping) == nj

\* Lines 496-499: clear the tags the mapping manages.
ClearNames(nj, pose_bones, mapping) ==
    [b \in DOMAIN nj |-> IF b \in pose_bones /\ nj[b] \in DictKeys(mapping)
                         THEN "" ELSE nj[b]]

\* An existence test that lets every bone name through.
NotInPoseBonesUnchecked(pose_bone_name, pose_bones) == FALSE

\* Line 505: pose_bone_name not in pose_bones
NotInPoseBones(pose_bone_name, pose_bones) == pose_bone_name \notin pose_bones

\* Lines 501-508, from the k-th item of the mapping on; pose_bones[...] of a
\* name the rig does not have raises KeyError.
RECURSIVE AssignLoop(_, _, _, _)
AssignLoop(nj, pose_bones, mapping, k) ==
    IF k > Len(mapping) THEN [name_j |-> nj, raised |-> NoError]
    ELSE LET mmd_bone_name == mapping[k][1]
             pose_bone_name == mapping[k][2]
         IN  IF pose_bone_name = None
             THEN AssignLoop(nj, pose_bones, mapping, k + 1)
             ELSE IF NotInPoseBones(pose_bone_name, pose_bones)
             THEN AssignLoop(nj, pose_bones, mapping, k + 1)
             ELSE IF pose_bone_name \notin pose_bones
             THEN [name_j |-> nj, raised |-> "KeyError"]
             ELSE AssignLoop([nj EXCEPT ![pose_bone_name] = mmd_bone_name],
                             pose_bones, mapping, k + 1)

\* RichArmatureObjectABC.assign_mmd_bone_names
assign_mmd_bone_names(nj, pose_bones, infos, overrides) ==
    LET mapping == mmd_bone_name2pose_bone_names(infos, overrides)
    IN  AssignLoop(ClearNames(nj, pose_bones, mapping), pose_bones, mapping, 1)

---------------------------------------------------------------------------
(* Specification SpecNames: the name tags of a rig whose pose bones carry  *)
(* any tags at first (left by another mapping, or by the user), under      *)
(* repeated calls of assign_mmd_bone_names.                                *)

\* The descriptors of two rig classes.
BindInfoChoices ==
    {<<MMDBindInfo(Ryoume, ControlEyes), MMDBindInfo(Hidarime, TargetEyeL),
       MMDBindInfo(Migime, None)>>,
     <<MMDBindInfo(Ryoume, TargetEyeL), MMDBindInfo(Hidarime, MissingBone),
       MMDBindInfo(Migime, TargetEyeR)>>}

\* A tag no rig manages.
CustomTag == "custom"

\* The tags a pose bone carries at first, and the bones that carry them.
Tags == {"", Ryoume, Hidarime, Migime, Atama, CustomTag}
TaggedBones == {TargetEyeL, TargetEyeR, ControlEyes}

\* The overrides a caller passes.
OverrideChoices ==
    {NoOverrides,
     Overrides(<<>>),
     Overrides(<< <<Hidarime, ControlEyes>> >>),
     Overrides(<< <<Ryoume, TargetEyeL>> >>),
     Overrides(<< <<Ryoume, None>> >>),
     Overrides(<< <<Migime, MissingBone>> >>),
     Overrides(<< <<Migime, TargetEyeR>> >>),
     Overrides(<< <<Atama, TargetEyeR>> >>),
     Overrides(<< <<Hidarime, TargetEyeR>>, <<Atama, MissingBone>> >>)}

\* What a call of assign_mmd_bone_names found: its overrides, the bones that
\* held a name of the mapping the mapping does not give them, and the names
\* of the mapping that sat on two bones or more.
AssignArgs(overrides) ==
    LET mapping == mmd_bone_name2pose_bone_names(mmd_bind_infos, overrides)
    IN  [overrides |-> overrides,
         stale |-> {b \in Bones :
                       \E i \in 1..Len(mapping) :
                           mapping[i][1] = name_j[b] /\ mapping[i][2] # b},
         duplicated |-> {n \in DictKeys(mapping) :
                             Cardinality({b \in Bones : name_j[b] = n}) > 1}]

InitNames ==
    /\ constraints = [b \in Bones |-> <<>>]
    /\ drivers = {}
    /\ props = [b \in Bones |-> <<>>]
    /\ name_j \in {nj \in [Bones -> Tags] : \A b \in Bones \ TaggedBones : nj[b] = ""}
    /\ mmd_bind_infos \in BindInfoChoices
    /\ wired = {}
    /\ generator = NoGenerator
    /\ datapaths = FaceRig
    /\ userStacks = [b \in Bones |-> <<>>]
    /\ last = Op("init", NoError, {})

AssignMmdBoneNames ==
    \E overrides \in OverrideChoices :
        LET done == assign_mmd_bone_names(name_j, Bones, mmd_bind_infos, overrides)
        IN  /\ name_j' = done.name_j
            /\ last' = Op("assign_mmd_bone_names", done.raised, AssignArgs(overrides))
            /\ UNCHANGED <<constraints, drivers, props, datapaths, mmd_bind_infos, wired,
                         userStacks, generator>>

NextNames == AssignMmdBoneNames

SpecNames == InitNames /\ [][NextNames]_vars

---------------------------------------------------------------------------
(* Properties of SpecNames.  The mapping of a call is read off the         *)
(* descriptors and the overrides: an override comes before the descriptor. *)

Described(n) == \E i \in 1..Len(mmd_bind_infos) : mmd_bind_infos[i].mmd_bone_name = n
DescriptorOf(n) ==
    mmd_bind_infos[CHOOSE i \in 1..Len(mmd_bind_infos) :
                       mmd_bind_infos[i].mmd_bone_name = n].pose_bone_name
Overridden(o, n) == \E i \in 1..Len(o.items) : o.items[i][1] = n
OverrideOf(o, n) == o.items[CHOOSE i \in 1..Len(o.items) : o.items[i][1] = n][2]

\* The names a call manages, and the bone the call maps a name to.
ManagedNames(o) ==
    {mmd_bind_infos[i].mmd_bone_name : i \in 1..Len(mmd_bind_infos)}
        \cup {o.items[i][1] : i \in 1..Len(o.items)}
TargetOf(o, n) == IF Overridden(o, n) THEN OverrideOf(o, n) ELSE DescriptorOf(n)

\* The place of a managed name in the order of the mapping: the descriptors
\* in their order, then the names only the overrides have.
PlaceOf(o, n) ==
    IF Described(n)
    THEN CHOOSE i \in 1..Len(mmd_bind_infos) : mmd_bind_infos[i].mmd_bone_name = n
    ELSE Len(mmd_bind_infos) + (CHOOSE i \in 1..Len(o.items) : o.items[i][1] = n)

\* A name later in the mapping has the same target as n.
Displaced(o, n) ==
    \E m \in ManagedNames(o) :
        /\ TargetOf(o, m) = TargetOf(o, n)
        /\ PlaceOf(o, m) > PlaceOf(o, n)

\* C6: after assign_mmd_bone_names, whatever the tags were and whatever the
\* overrides are, every managed name (key of the descriptor mapping merged
\* with the overrides) is the tag of at most one pose bone; a bone that held
\* a managed name before holds it afterwards only if the mapping assigns
\* that name to that bone; and a tag that is not a managed name stays on a
\* bone that receives no assignment.
C6_Step ==
    (last'.op = "assign_mmd_bone_names") =>
        LET o == last'.args.overrides
        IN  /\ \A n \in ManagedNames(o) :
                   Cardinality({b \in Bones : name_j'[b] = n}) <= 1
            /\ \A b \in Bones :
                   (name_j[b] \in ManagedNames(o) /\ name_j'[b] = name_j[b])
                       => TargetOf(o, name_j[b]) = b
            /\ \A b \in Bones :
                   (/\ name_j[b] \notin ManagedNames(o)
                    /\ \A n \in ManagedNames(o) : TargetOf(o, n) # b)
                       => name_j'[b] = name_j[b]

C6_ManagedNamesUnique == [][C6_Step]_vars

\* assign_mmd_bone_names ran on a rig where a managed name sat on two bones
\* and on a bone the mapping does not give it, and a custom tag is still
\* there.
C6_Witness ==
    /\ last.op = "assign_mmd_bone_names"
    /\ last.args.stale # {}
    /\ last.args.duplicated # {}
    /\ \E b \in Bones : name_j[b] = CustomTag

\* C7: assign_mmd_bone_names raises no error; a name mapped (by descriptor
\* or override) to None or to a bone the rig does not have is on no bone;
\* every name whose target exists is on its target; and an overridden name
\* is on the override's bone, not on the descriptor's bone.
C7_SoftSkipAndOverride ==
    (last.op = "assign_mmd_bone_names") =>
        LET o == last.args.overrides
        IN  /\ last.raised = NoError
            /\ \A n \in ManagedNames(o) :
                   /\ TargetOf(o, n) \notin Bones => \A b \in Bones : name_j[b] # n
                   /\ TargetOf(o, n) \in Bones => name_j[TargetOf(o, n)] = n
                   /\ (/\ Overridden(o, n) /\ Described(n)
                       /\ DescriptorOf(n) \in Bones
                       /\ DescriptorOf(n) # TargetOf(o, n))
                          => name_j[DescriptorOf(n)] # n

\* C7, amended: as above, except that of the names whose targets are one and
\* the same existing bone only the last in the order of the mapping is on
\* that bone, and the others are on no bone.
C7_SoftSkipAndOverrideUnlessDisplaced ==
    (last.op = "assign_mmd_bone_names") =>
        LET o == last.args.overrides
        IN  /\ last.raised = NoError
            /\ \A n \in ManagedNames(o) :
                   /\ TargetOf(o, n) \notin Bones => \A b \in Bones : name_j[b] # n
                   /\ (TargetOf(o, n) \in Bones /\ ~Displaced(o, n))
                          => name_j[TargetOf(o, n)] = n
                   /\ (TargetOf(o, n) \in Bones /\ Displaced(o, n))
                          => \A b \in Bones : name_j[b] # n
                   /\ (/\ Overridden(o, n) /\ Described(n)
                       /\ DescriptorOf(n) \in Bones
                       /\ DescriptorOf(n) # TargetOf(o, n))
                          => name_j[DescriptorOf(n)] # n

\* assign_mmd_bone_names ran with a descriptor without a bone, an override to
\* a bone the rig does not have, and an override that moved a name from the
\* descriptor's bone to another bone.
C7_Witness ==
    /\ last.op = "assign_mmd_bone_names"
    /\ last.raised = NoError
    /\ LET o == last.args.overrides
       IN  /\ \E n \in ManagedNames(o) : TargetOf(o, n) = None
           /\ \E n \in ManagedNames(o) : TargetOf(o, n) = MissingBone
           /\ \E n \in ManagedNames(o) :
                  /\ Overridden(o, n) /\ Described(n)
                  /\ DescriptorOf(n) \in Bones
                  /\ TargetOf(o, n) \in Bones
                  /\ DescriptorOf(n) # TargetOf(o, n)
                  /\ name_j[TargetOf(o, n)] = n

---------------------------------------------------------------------------
(* The control properties: _get_property, _set_property and the generated  *)
(* accessors of RichArmatureObjectABC, the custom properties of the pose   *)
(* bones they read and write, and the host's evaluation of the influence   *)
(* drivers that read the same properties.                                  *)

\* A Python value: None, or a number.
PyNone == [is_none |-> TRUE, value |-> 0]
PyValue(v) == [is_none |-> FALSE, value |-> v]

\* pose_bone[prop_name] = value: the custom property is created when the
\* bone has none of that name.
SetItem(P, bone, prop_name, value) ==
    [P EXCEPT ![bone] = [n \in (DOMAIN @) \cup {prop_name} |->
                            IF n = prop_name THEN value ELSE @[n]]]

\* pose_bones[bone_name][prop_name] raises KeyError without that bone or
\* without that property.
HasItem(P, pose_bones, bone_name, prop_name) ==
    bone_name \in pose_bones /\ prop_name \in DOMAIN P[bone_name]

\* RichArmatureObjectABC._get_property: the value returned and the
\* exception raised.
_get_property(dps, pose_bones, P, control_type) ==
    IF ~HasKey(dps, control_type)
    THEN [returned |-> PyNone, raised |-> NoError]
    ELSE LET datapath == dps[control_type]
         IN  IF ~HasItem(P, pose_bones, datapath.bone_name, datapath.prop_name)
             THEN [returned |-> PyNone, raised |-> "KeyError"]
             ELSE [returned |-> PyValue(P[datapath.bone_name][datapath.prop_name]),
                   raised |-> NoError]

\* A setter that subscripts the registry (self.datapaths[control_type]).
_set_propertySubscript(dps, pose_bones, P, control_type, value) ==
    IF ~HasKey(dps, control_type) \/ dps[control_type].bone_name \notin pose_bones
    THEN [props |-> P, raised |-> "KeyError"]
    ELSE [props |-> SetItem(P, dps[control_type].bone_name,
                            dps[control_type].prop_name, value),
          raised |-> NoError]

\* RichArmatureObjectABC._set_property: the custom properties it leaves and
\* the exception raised.
_set_property(dps, pose_bones, P, control_type, value) ==
    IF ~HasKey(dps, control_type)
    THEN [props |-> P, raised |-> NoError]
    ELSE LET datapath == dps[control_type]
         IN  IF datapath.bone_name \notin pose_bones
             THEN [props |-> P, raised |-> "KeyError"]
             ELSE [props |-> SetItem(P, datapath.bone_name, datapath.prop_name, value),
                   raised |-> NoError]

\* The generated accessors (lines 541-699): the property, the control its
\* getter passes to _get_property and the control its setter passes to
\* _set_property.
Accessors ==
    {[name |-> "torso_neck_follow", getter |-> "TORSO_NECK_FOLLOW", setter |-> "TORSO_NECK_FOLLOW"],
     [name |-> "torso_head_follow", getter |-> "TORSO_HEAD_FOLLOW", setter |-> "TORSO_HEAD_FOLLOW"],
     [name |-> "arm_l_ik_fk", getter |-> "ARM_L_IK_FK", setter |-> "ARM_L_IK_FK"],
     [name |-> "arm_r_ik_fk", getter |-> "ARM_R_IK_FK", setter |-> "ARM_R_IK_FK"],
     [name |-> "arm_l_ik_stretch", getter |-> "ARM_L_IK_STRETCH", setter |-> "ARM_L_IK_STRETCH"],
     [name |-> "arm_r_ik_stretch", getter |-> "ARM_R_IK_STRETCH", setter |-> "ARM_R_IK_STRETCH"],
     [name |-> "arm_l_ik_parent", getter |-> "ARM_L_IK_PARENT", setter |-> "ARM_L_IK_PARENT"],
     [name |-> "arm_r_ik_parent", getter |-> "ARM_R_IK_PARENT", setter |-> "ARM_R_IK_PARENT"],
     [name |-> "arm_l_pole_vector", getter |-> "ARM_L_POLE_VECTOR", setter |-> "ARM_L_POLE_VECTOR"],
     [name |-> "arm_r_pole_vector", getter |-> "ARM_R_POLE_VECTOR", setter |-> "ARM_R_POLE_VECTOR"],
     [name |-> "leg_l_ik_fk", getter |-> "LEG_L_IK_FK", setter |-> "LEG_L_IK_FK"],
     [name |-> "leg_r_ik_fk", getter |-> "LEG_R_IK_FK", setter |-> "LEG_R_IK_FK"],
     [name |-> "leg_l_ik_stretch", getter |-> "LEG_L_IK_STRETCH", setter |-> "LEG_L_IK_STRETCH"],
     [name |-> "leg_r_ik_stretch", getter |-> "LEG_R_IK_STRETCH", setter |-> "LEG_R_IK_STRETCH"],
     [name |-> "leg_l_ik_parent", getter |-> "LEG_L_IK_PARENT", setter |-> "LEG_L_IK_PARENT"],
     [name |-> "leg_r_ik_parent", getter |-> "LEG_R_IK_PARENT", setter |-> "LEG_R_IK_PARENT"],
     [name |-> "leg_l_pole_vector", getter |-> "LEG_L_POLE_VECTOR", setter |-> "LEG_L_POLE_VECTOR"],
     [name |-> "leg_r_pole_vector", getter |-> "LEG_R_POLE_VECTOR", setter |-> "LEG_R_POLE_VECTOR"],
     [name |-> "leg_l_pole_parent", getter |-> "LEG_L_POLE_PARENT", setter |-> "LEG_L_POLE_PARENT"],
     [name |-> "leg_r_pole_parent", getter |-> "LEG_R_POLE_PARENT", setter |-> "LEG_R_POLE_PARENT"]}

\* The host resolves the data path of a driver variable,
\* pose.bones["<bone>"]["<prop>"], against the custom properties.
PathResolves(P, path) ==
    /\ Len(path) = 7
    /\ path[1] = "pose.bones"
    /\ path[2] = "[\"" /\ path[3] \in DOMAIN P /\ path[4] = "\"]"
    /\ path[5] = "[\"" /\ path[6] \in DOMAIN P[path[3]] /\ path[7] = "\"]"
PathValue(P, path) == P[path[3]][path[6]]

\* The two forms of expression add_influence_driver writes: '+<name>' and
\* '1-<name>'.
IsPlain(expression) == Len(expression) >= 1 /\ expression[1] = "+"
IsInverted(expression) ==
    Len(expression) >= 2 /\ expression[1] = "1" /\ expression[2] = "-"
NameIn(expression) ==
    SubSeq(expression, IF IsPlain(expression) THEN 2 ELSE 3, Len(expression))

\* A driver the host can evaluate: its expression has one of the two forms
\* and names a variable of the driver that reads a property of the armature
\* object that exists.
Evaluates(P, d) ==
    /\ IsPlain(d.expression) \/ IsInverted(d.expression)
    /\ \E i \in 1..Len(d.variables) :
           /\ d.variables[i].name = NameIn(d.expression)
           /\ d.variables[i].target = RawObject
           /\ PathResolves(P, d.variables[i].data_path)

\* The value of the expression: of the variables of one name the last
\* defines the name.
DriverValue(P, d) ==
    LET i == CHOOSE i \in 1..Len(d.variables) :
                 /\ d.variables[i].name = NameIn(d.expression)
                 /\ \A j \in (i + 1)..Len(d.variables) :
                        d.variables[j].name # NameIn(d.expression)
        value == PathValue(P, d.variables[i].data_path)
    IN  IF IsInverted(d.expression) THEN 1 - value ELSE value

\* constraint.influence is a factor in [0, 1].
Clamp(x) == IF x < 0 THEN 0 ELSE IF x > 1 THEN 1 ELSE x

\* The influence of a constraint: what its driver evaluates to, or the
\* constraint's own influence (1.0 as created) without a driver the host can
\* evaluate.
Influence(P, D, bone, cname) ==
    IF \E d \in DriversAt(D, bone, cname, "influence") : Evaluates(P, d)
    THEN Clamp(DriverValue(P, CHOOSE d \in DriversAt(D, bone, cname, "influence") :
                                  Evaluates(P, d)))
    ELSE 1

---------------------------------------------------------------------------
(* Specification SpecProps: the controls of a rig are read and written     *)
(* through the generated accessors while the binder wires constraint       *)
(* influences to them.                                                     *)

\* Longest stack of wired constraints in SpecProps.
MaxWired == 2

\* The values written to a control.
Values == {0, 1}

\* The registries of two rig variants: each supports few of the controls.
PropRigs == {Registry({"ARM_L_IK_FK"}), Registry({"ARM_L_IK_FK", "LEG_R_IK_FK"})}

\* The path a binder wires to a control: f'pose.bones{datapath.data_path}'.
ControlDataPath(control_type) == <<"pose.bones">> \o data_path(datapaths[control_type])

\* The record of a wiring.
Wiring(bone, cname, path, invert_influence) ==
    [bone |-> bone, constraint |-> cname, data_path |-> path,
     invert_influence |-> invert_influence]

InitProps ==
    /\ constraints = [b \in Bones |-> <<>>]
    /\ drivers = {}
    /\ datapaths \in PropRigs
    /\ \E present \in SUBSET {datapaths[ct].prop_name : ct \in DOMAIN datapaths} :
           \E values \in [present -> Values] :
               props = [b \in Bones |->
                           IF b = PropBone /\ present # {} THEN values ELSE <<>>]
    /\ name_j = [b \in Bones |-> ""]
    /\ mmd_bind_infos = <<>>
    /\ wired = {}
    /\ generator = NoGenerator
    /\ userStacks = [b \in Bones |-> <<>>]
    /\ last = Op("init", NoError, {})

\* The binder authors a constraint whose influence follows a control.
WireConstraint ==
    \E bone \in HelperBones, ct \in DOMAIN datapaths, invert_influence \in BOOLEAN :
        /\ Len(constraints[bone]) < MaxWired
        /\ LET w == add_copy_rotation_constraint(Now, bone, RawObject, HelperSubtarget,
                        "LOCAL", ControlDataPath(ct), invert_influence, <<>>)
               cname == w.c[bone][Len(w.c[bone])].name
           IN  /\ constraints' = w.c
               /\ drivers' = w.d
               /\ wired' = wired \cup
                      {Wiring(bone, cname, ControlDataPath(ct), invert_influence)}
               /\ last' = Op("add_copy_rotation_constraint", w.raised,
                             [bone |-> bone, control |-> ct,
                              invert_influence |-> invert_influence])
        /\ UNCHANGED <<props, name_j, datapaths, mmd_bind_infos, userStacks, generator>>

\* The binder re-wires the influence of a constraint it authored.
RewireConstraint ==
    \E bone \in HelperBones, ct \in DOMAIN datapaths, invert_influence \in BOOLEAN :
        \E i \in 1..Len(constraints[bone]) :
            LET cname == constraints[bone][i].name
            IN  /\ drivers' = update_influence_driver(drivers, bone, cname, RawObject,
                                  ControlDataPath(ct), invert_influence)
                /\ wired' = {w \in wired : ~(w.bone = bone /\ w.constraint = cname)}
                       \cup {Wiring(bone, cname, ControlDataPath(ct), invert_influence)}
                /\ last' = Op("update_influence_driver", NoError,
                              [bone |-> bone, control |-> ct,
                               invert_influence |-> invert_influence])
                /\ UNCHANGED <<constraints, props, name_j, datapaths, mmd_bind_infos,
                             userStacks, generator>>

\* rig.<accessor> = value
SetControl ==
    \E a \in Accessors, value \in Values :
        LET done == _set_property(datapaths, Bones, props, a.setter, value)
        IN  /\ props' = done.props
            /\ last' = Op("set", done.raised,
                          [accessor |-> a.name, control |-> a.setter, value |-> value])
            /\ UNCHANGED <<constraints, drivers, name_j, datapaths, mmd_bind_infos, wired,
                         userStacks, generator>>

\* rig.<accessor>, with the value the call before it set the same accessor
\* to, if that is what the call before it did.
GetControl ==
    \E a \in Accessors :
        LET done == _get_property(datapaths, Bones, props, a.getter)
            after_set == IF last.op = "set" /\ last.raised = NoError
                            /\ last.args.accessor = a.name
                         THEN PyValue(last.args.value) ELSE PyNone
        IN  /\ last' = Op("get", done.raised,
                          [accessor |-> a.name, control |-> a.getter,
                           returned |-> done.returned, after_set |-> after_set])
            /\ UNCHANGED <<constraints, drivers, props, name_j, datapaths, mmd_bind_infos,
                         wired, userStacks, generator>>

NextProps ==
    \/ WireConstraint
    \/ RewireConstraint
    \/ SetControl
    \/ GetControl

SpecProps == InitProps /\ [][NextProps]_vars

---------------------------------------------------------------------------
(* Properties of SpecProps.                                                *)

\* The control of the last accessor call has no data path in the registry.
AbsentControl == last.op \in {"get", "set"} /\ ~HasKey(datapaths, last.args.control)

\* C9, the setter: a setter call for a control the registry has no data path
\* for leaves every custom property of every pose bone as it was.
C9_Step ==
    (last'.op = "set" /\ ~HasKey(datapaths', last'.args.control)) => props' = props

\* C9: for every control with a generated accessor that the registry has no
\* data path for, the getter returns None, the setter creates and changes
\* no custom property of any pose bone, and neither raises.
C9_AbsentControlIsSoft ==
    /\ [](AbsentControl =>
              /\ last.raised = NoError
              /\ last.op = "get" => last.args.returned = PyNone)
    /\ [][C9_Step]_vars

\* A control the registry of the rig has no data path for was set, on a rig
\* that has custom properties, and then read.
C9_Witness ==
    /\ AbsentControl
    /\ last.op = "get"
    /\ ~last.args.after_set.is_none
    /\ last.args.returned = PyNone
    /\ DOMAIN props[PropBone] # {}

\* The constraints wired to a control follow the value v of the control:
\* influence v and expression '+var' when wired with invert_influence
\* false, influence 1 - v and expression '1-var' when wired with
\* invert_influence true; two of opposite inversion sum to 1.
Follows(control_type, v) ==
    LET followers == {w \in wired : w.data_path = ControlDataPath(control_type)}
        influence(w) == Influence(props, drivers, w.bone, w.constraint)
    IN  /\ \A w \in followers :
               /\ influence(w) = IF w.invert_influence THEN 1 - v ELSE v
               /\ \A d \in DriversAt(drivers, w.bone, w.constraint, "influence") :
                      d.expression =
                          IF w.invert_influence
                          THEN <<"1","-","m","m","d","_","u","u","u","n","y","a","a","_",
                                 "i","n","f","l","u","e","n","c","e">>
                          ELSE <<"+","m","m","d","_","u","u","u","n","y","a","a","_",
                                 "i","n","f","l","u","e","n","c","e">>
        /\ \A w1, w2 \in followers :
               w1.invert_influence # w2.invert_influence
                   => influence(w1) + influence(w2) = 1

\* C10: for a control whose data path resolves, after the control is set to
\* v in {0, 1} the constraints wired to it follow v, and a read of the same
\* control that comes next returns v, the constraints still following v.
C10_SetGetAndInfluence ==
    /\ (last.op = "set" /\ HasKey(datapaths, last.args.control)) =>
           /\ last.raised = NoError
           /\ Follows(last.args.control, last.args.value)
    /\ (/\ last.op = "get" /\ HasKey(datapaths, last.args.control)
        /\ ~last.args.after_set.is_none) =>
           /\ last.raised = NoError
           /\ last.args.returned = last.args.after_set
           /\ Follows(last.args.control, last.args.after_set.value)

\* A control with two constraints wired to it, one inverted and one not, was
\* set to 1 and read.
C10_Witness ==
    /\ last.op = "get"
    /\ HasKey(datapaths, last.args.control)
    /\ last.args.after_set = PyValue(1)
    /\ last.args.returned = PyValue(1)
    /\ \E w1, w2 \in wired :
           /\ w1.data_path = ControlDataPath(last.args.control)
           /\ w2.data_path = ControlDataPath(last.args.control)
           /\ ~w1.invert_influence /\ w2.invert_influence
           /\ Influence(props, drivers, w1.bone, w1.constraint) = 1
           /\ Influence(props, drivers, w2.bone, w2.constraint) = 0

---------------------------------------------------------------------------
(* RichArmatureObjectABC.create_props and PoseUtil.add_prop.               *)

\* PoseUtil.add_prop: rna_idprop_ui_create assigns pose_bone[prop_name] =
\* default (0.0 unless the caller gives another) and then describes the
\* property (limits, description) to the host's editor.
add_prop(P, pose_bone, prop_name, default) == SetItem(P, pose_bone, prop_name, default)

\* A list that has a control of the generated accessors as well.
CreatePropControlsWithArm ==
    <<"BIND_MMD_UUUNYAA", "EYE_MMD_UUUNYAA", "LEG_L_MMD_UUUNYAA", "LEG_R_MMD_UUUNYAA",
      "TOE_L_MMD_UUUNYAA", "TOE_R_MMD_UUUNYAA", "ARM_L_IK_FK">>

\* Lines 461-465: the controls create_props goes through, in order.
CreatePropControls ==
    <<"BIND_MMD_UUUNYAA", "EYE_MMD_UUUNYAA", "LEG_L_MMD_UUUNYAA", "LEG_R_MMD_UUUNYAA",
      "TOE_L_MMD_UUUNYAA", "TOE_R_MMD_UUUNYAA">>

\* Lines 461-470, from the k-th control of the list on.
RECURSIVE CreatePropsLoop(_, _, _, _)
CreatePropsLoop(dps, P, prop_storage_bone, k) ==
    IF k > Len(CreatePropControls) THEN [props |-> P, raised |-> NoError]
    ELSE IF ~HasKey(dps, CreatePropControls[k])
    THEN CreatePropsLoop(dps, P, prop_storage_bone, k + 1)
    ELSE CreatePropsLoop(dps,
             add_prop(P, prop_storage_bone, dps[CreatePropControls[k]].prop_name, 0),
             prop_storage_bone, k + 1)

\* RichArmatureObjectABC.create_props
create_props(dps, P, prop_storage_bone) == CreatePropsLoop(dps, P, prop_storage_bone, 1)

---------------------------------------------------------------------------
(* Specification SpecCreate: create_props on rigs of several variants,     *)
(* whose bones may hold custom properties already.                         *)

\* The registries of the rig variants: the storage bone holds a property
\* per supported control, named after the control; in the last variant the
\* data paths name another bone and names of their own, one of them twice.
CreateRigs ==
    {Registry({}),
     Registry({"BIND_MMD_UUUNYAA"}),
     Registry({"BIND_MMD_UUUNYAA", "EYE_MMD_UUUNYAA"}),
     Registry({"ARM_L_IK_FK", "LEG_R_POLE_PARENT"}),
     Registry({"EYE_MMD_UUUNYAA", "ARM_L_IK_FK"}),
     Registry({"LEG_L_MMD_UUUNYAA", "LEG_R_MMD_UUUNYAA", "TORSO_NECK_FOLLOW"}),
     Registry({"TOE_L_MMD_UUUNYAA", "TOE_R_MMD_UUUNYAA", "LEG_L_IK_FK"}),
     Registry({"BIND_MMD_UUUNYAA", "EYE_MMD_UUUNYAA", "LEG_L_MMD_UUUNYAA",
               "LEG_R_MMD_UUUNYAA", "TOE_L_MMD_UUUNYAA", "TOE_R_MMD_UUUNYAA"}),
     [ct \in {"BIND_MMD_UUUNYAA", "LEG_L_MMD_UUUNYAA", "LEG_R_MMD_UUUNYAA", "ARM_R_IK_FK"}
         |-> IF ct = "BIND_MMD_UUUNYAA" THEN DataPath(ControlEyes, "mmd_uuunyaa_bind")
             ELSE IF ct = "ARM_R_IK_FK" THEN DataPath(ControlEyes, "IK_FK")
             ELSE DataPath(PropBone, "mmd_uuunyaa_leg")]}

\* The bones create_props is called with.
OwnerBones == {PropBone, ControlEyes}

\* The custom properties a bone holds before the binder runs: one of the
\* user's, one a binding before this one left, one of the rig's own.
EarlierProps ==
    {<<>>,
     [n \in {"user_prop"} |-> 1],
     [n \in {"user_prop", "BIND_MMD_UUUNYAA", "ARM_L_IK_FK"} |-> 1]}

InitCreate ==
    /\ constraints = [b \in Bones |-> <<>>]
    /\ drivers = {}
    /\ datapaths \in CreateRigs
    /\ \E on_storage \in EarlierProps, on_eyes \in {<<>>, [n \in {"user_prop"} |-> 1]} :
           props = [b \in Bones |-> IF b = PropBone THEN on_storage
                                    ELSE IF b = ControlEyes THEN on_eyes ELSE <<>>]
    /\ name_j = [b \in Bones |-> ""]
    /\ mmd_bind_infos = <<>>
    /\ wired = {}
    /\ generator = NoGenerator
    /\ userStacks = [b \in Bones |-> <<>>]
    /\ last = Op("init", NoError, {})

CreateProps ==
    \E prop_storage_bone \in OwnerBones :
        LET done == create_props(datapaths, props, prop_storage_bone)
        IN  /\ props' = done.props
            /\ last' = Op("create_props", done.raised,
                          [prop_storage_bone |-> prop_storage_bone])
            /\ UNCHANGED <<constraints, drivers, name_j, datapaths, mmd_bind_infos, wired,
                         userStacks, generator>>

NextCreate == CreateProps

SpecCreate == InitCreate /\ [][NextCreate]_vars

---------------------------------------------------------------------------
(* Properties of SpecCreate.                                               *)

\* The six controls create_props is about.
BackedControls ==
    {"BIND_MMD_UUUNYAA", "EYE_MMD_UUUNYAA", "LEG_L_MMD_UUUNYAA", "LEG_R_MMD_UUUNYAA",
     "TOE_L_MMD_UUUNYAA", "TOE_R_MMD_UUUNYAA"}

\* The property names the registry resolves for them.
BackingNames ==
    {datapaths[ct].prop_name : ct \in BackedControls \cap DOMAIN datapaths}

\* C11: create_props(owner_bone) raises nothing; afterwards owner_bone
\* holds, next to the properties it held, exactly the properties named by
\* the data paths of those of the six controls the registry resolves; the
\* properties it held under other names keep their values, and the
\* properties of every other bone are as they were.
C11_Step ==
    (last'.op = "create_props") =>
        LET owner == last'.args.prop_storage_bone
        IN  /\ last'.raised = NoError
            /\ DOMAIN props'[owner] = (DOMAIN props[owner]) \cup BackingNames
            /\ \A n \in (DOMAIN props[owner]) \ BackingNames :
                   props'[owner][n] = props[owner][n]
            /\ \A b \in Bones \ {owner} : props'[b] = props[b]

C11_CreatesBackedProps == [][C11_Step]_vars

\* create_props ran on a rig that supports some of the six controls, not
\* all, and a control outside the six; the owner bone now holds a property
\* per supported control of the six, none for the other control, and its
\* user property.
C11_Witness ==
    /\ last.op = "create_props"
    /\ last.raised = NoError
    /\ BackedControls \cap DOMAIN datapaths # {}
    /\ BackedControls \ DOMAIN datapaths # {}
    /\ (DOMAIN datapaths) \ BackedControls # {}
    /\ DOMAIN props[last.args.prop_storage_bone] = BackingNames \cup {"user_prop"}

---------------------------------------------------------------------------
(* ArmatureObjectABC.to_bone_suffix.  A bone name is a sequence of         *)
(* one-character strings.                                                  *)

\* The classes of the pattern r'[_\.]([lLrR])$'.
Separators == {"_", "."}
Markers == {"l", "L", "r", "R"}

\* An end-of-string test that takes the very end only (r'\Z').
AtEndOnly(s, k) == k = Len(s)

\* '$' matches at the end of the string, and before a newline that is the
\* last character of the string.
AtEnd(s, k) == k = Len(s) \/ (k = Len(s) - 1 /\ s[Len(s)] = "\n")

\* The pattern matches the two characters of s that start at position i.
MatchesAt(s, i) ==
    /\ i >= 1 /\ i + 1 <= Len(s)
    /\ s[i] \in Separators
    /\ s[i + 1] \in Markers
    /\ AtEnd(s, i + 1)

\* re.search(r'[_\.]([lLrR])$', s): the leftmost match and its group 1, or
\* no match.
re_search(s) ==
    IF \E i \in 1..Len(s) : MatchesAt(s, i)
    THEN LET i == CHOOSE i \in 1..Len(s) :
                      MatchesAt(s, i) /\ \A j \in 1..(i - 1) : ~MatchesAt(s, j)
         IN  [matched |-> TRUE, group1 |-> s[i + 1]]
    ELSE [matched |-> FALSE, group1 |-> ""]

\* ArmatureObjectABC.to_bone_suffix
to_bone_suffix(bone_name) ==
    LET match == re_search(bone_name)
    IN  IF ~match.matched THEN None
        ELSE IF match.group1 \in {"l", "L"} THEN "L"
        ELSE "R"

---------------------------------------------------------------------------
(* Specification SpecSuffix: to_bone_suffix applied to every short name    *)
(* over a small alphabet.                                                  *)

\* Longest bone name of SpecSuffix.
MaxNameLen == 3

\* The characters of the names: a letter that is no marker, the markers,
\* the separators and the newline.
NameChars == {"a", "l", "L", "r", "R", "_", ".", "\n"}

BoneNames == UNION {[1..n -> NameChars] : n \in 0..MaxNameLen}

InitSuffix ==
    /\ constraints = [b \in Bones |-> <<>>]
    /\ drivers = {}
    /\ datapaths = FaceRig
    /\ props = [b \in Bones |-> <<>>]
    /\ name_j = [b \in Bones |-> ""]
    /\ mmd_bind_infos = <<>>
    /\ wired = {}
    /\ generator = NoGenerator
    /\ userStacks = [b \in Bones |-> <<>>]
    /\ \E bone_name \in BoneNames :
           last = Op("bone_name", NoError, [bone_name |-> bone_name, returned |-> None])

ToBoneSuffix ==
    /\ last.op = "bone_name"
    /\ last' = Op("to_bone_suffix", NoError,
                  [bone_name |-> last.args.bone_name,
                   returned |-> to_bone_suffix(last.args.bone_name)])
    /\ UNCHANGED <<constraints, drivers, props, name_j, datapaths, mmd_bind_infos, wired,
                 userStacks, generator>>

NextSuffix == ToBoneSuffix

SpecSuffix == InitSuffix /\ [][NextSuffix]_vars

---------------------------------------------------------------------------
(* Properties of SpecSuffix.                                               *)

\* The last character of a name is one of the given characters.
EndsIn(s, chars) == Len(s) >= 1 /\ s[Len(s)] \in chars

\* C12: to_bone_suffix returns 'L' for every name that ends in 'l' or 'L',
\* 'R' for every name that ends in 'r' or 'R', with or without an underscore
\* or dot before the marker, and None for every other name.
C12_SuffixOfTrailingMarker ==
    (last.op = "to_bone_suffix") =>
        last.args.returned =
            IF EndsIn(last.args.bone_name, {"l", "L"}) THEN "L"
            ELSE IF EndsIn(last.args.bone_name, {"r", "R"}) THEN "R"
            ELSE None

\* A name without the newline that may close it.
Chomp(s) == IF EndsIn(s, {"\n"}) THEN SubSeq(s, 1, Len(s) - 1) ELSE s

\* A name ends in an underscore or dot followed by one of the given markers.
EndsInSeparated(s, chars) ==
    Len(s) >= 2 /\ s[Len(s) - 1] \in {"_", "."} /\ s[Len(s)] \in chars

\* C12, amended: to_bone_suffix returns 'L' for every name that ends in an
\* underscore or dot followed by 'l' or 'L', 'R' for every name that ends in
\* an underscore or dot followed by 'r' or 'R' (a newline closing the name
\* left aside), and None for every other name: the underscore or dot is
\* required.
C12_SuffixOfSeparatedMarker ==
    (last.op = "to_bone_suffix") =>
        last.args.returned =
            IF EndsInSeparated(Chomp(last.args.bone_name), {"l", "L"}) THEN "L"
            ELSE IF EndsInSeparated(Chomp(last.args.bone_name), {"r", "R"}) THEN "R"
            ELSE None

\* to_bone_suffix ran on 'a.r' and returned 'R'.
C12_Witness ==
    /\ last.op = "to_bone_suffix"
    /\ last.args.bone_name = <<"a", ".", "r">>
    /\ last.args.returned = "R"

---------------------------------------------------------------------------
(* PoseUtil.list_constraints.  The function has a yield in its body, so a  *)
(* call runs none of it and returns a generator object; the body runs      *)
(* under next(): up to the next yield, or to its end, which exhausts the   *)
(* generator for good.                                                     *)

\* list_constraints(pose_bone, constraint_type): the generator object, not
\* started, with its record of the iterations made over it.
list_constraints(bone, constraint_type) ==
    [state |-> "created", bone |-> bone, constraint_type |-> constraint_type,
     position |-> 0, passes |-> <<>>, mutated |-> FALSE]

\* The first constraint of the kind after the position the body stopped at,
\* or 0 when the loop of the body runs to its end.
NextOfType(stack, constraint_type, position) ==
    IF \E i \in (position + 1)..Len(stack) : stack[i].type = constraint_type
    THEN CHOOSE i \in (position + 1)..Len(stack) :
             /\ stack[i].type = constraint_type
             /\ \A j \in (position + 1)..(i - 1) : stack[j].type # constraint_type
    ELSE 0

\* next(generator) raises StopIteration: the generator is exhausted, or its
\* body finds no further constraint of the kind.
StopsIteration(gen, stack) ==
    gen.state = "exhausted" \/ NextOfType(stack, gen.constraint_type, gen.position) = 0

\* next(generator): the generator after the call.
GeneratorNext(gen, stack) ==
    IF StopsIteration(gen, stack)
    THEN [gen EXCEPT !.state = "exhausted"]
    ELSE [gen EXCEPT !.state = "suspended",
                     !.position = NextOfType(stack, gen.constraint_type, gen.position)]

\* for constraint in generator: next() until StopIteration; the names of
\* the constraints yielded come after those in yielded.
RECURSIVE ForLoop(_, _, _)
ForLoop(gen, stack, yielded) ==
    IF StopsIteration(gen, stack)
    THEN [generator |-> GeneratorNext(gen, stack), yielded |-> yielded]
    ELSE LET resumed == GeneratorNext(gen, stack)
         IN  ForLoop(resumed, stack, Append(yielded, stack[resumed.position].name))

---------------------------------------------------------------------------
(* Specification SpecList: a caller keeps the value one call of            *)
(* list_constraints returned and iterates it, once and again, while        *)
(* constraints may be added to the bone.                                   *)

\* Longest constraint stack of SpecList, and the most iterations made over
\* one generator.
MaxListStack == 3
MaxPasses == 2

\* The kinds of the constraints on the bone, and the kinds asked for.
ListedTypes == {"COPY_ROTATION", "COPY_LOCATION", "IK"}

\* The stacks the host builds from constraints of these kinds.
RECURSIVE StackOf(_)
StackOf(types) ==
    IF types = <<>> THEN <<>>
    ELSE NewConstraint(StackOf(SubSeq(types, 1, Len(types) - 1)), types[Len(types)])

ListedStacks == {StackOf(types) : types \in UNION {[1..n -> ListedTypes] : n \in 0..2}}

InitList ==
    /\ \E stack \in ListedStacks :
           constraints = [b \in Bones |-> IF b = ControlEyeL THEN stack ELSE <<>>]
    /\ drivers = {}
    /\ datapaths = FaceRig
    /\ props = [b \in Bones |-> <<>>]
    /\ name_j = [b \in Bones |-> ""]
    /\ mmd_bind_infos = <<>>
    /\ wired = {}
    /\ generator = NoGenerator
    /\ userStacks = [b \in Bones |-> <<>>]
    /\ last = Op("init", NoError, {})

\* sequence = PoseUtil.list_constraints(pose_bone, constraint_type)
CallListConstraints ==
    \E bone \in HelperBones, constraint_type \in ListedTypes :
        /\ generator = NoGenerator
        /\ generator' = list_constraints(bone, constraint_type)
        /\ last' = Op("list_constraints", NoError, {bone})
        /\ UNCHANGED <<constraints, drivers, props, name_j, datapaths, mmd_bind_infos, wired,
                     userStacks>>

\* for constraint in sequence: ...
IterateSequence ==
    /\ generator # NoGenerator
    /\ Len(generator.passes) < MaxPasses
    /\ LET done == ForLoop(generator, constraints[generator.bone], <<>>)
       IN  generator' = [done.generator EXCEPT !.passes = Append(@, done.yielded)]
    /\ last' = Op("iterate", NoError, {generator.bone})
    /\ UNCHANGED <<constraints, drivers, props, name_j, datapaths, mmd_bind_infos, wired,
                 userStacks>>

\* A constraint is added to the bone; the record of the generator notes a
\* change that comes between its iterations.
AddListedConstraint ==
    \E bone \in HelperBones, constraint_type \in ListedTypes :
        /\ Len(constraints[bone]) < MaxListStack
        /\ constraints' = [constraints EXCEPT ![bone] = NewConstraint(@, constraint_type)]
        /\ generator' = IF generator # NoGenerator /\ Len(generator.passes) = 1
                        THEN [generator EXCEPT !.mutated = TRUE]
                        ELSE generator
        /\ last' = Op("constraints.new", NoError, {bone})
        /\ UNCHANGED <<drivers, props, name_j, datapaths, mmd_bind_infos, wired, userStacks>>

NextList ==
    \/ CallListConstraints
    \/ IterateSequence
    \/ AddListedConstraint

SpecList == InitList /\ [][NextList]_vars

---------------------------------------------------------------------------
(* Properties of SpecList.                                                 *)

\* The names of the constraints of a kind on a stack, in stack order.
NamesOfType(stack, constraint_type) ==
    LET OfType(con) == con.type = constraint_type
        chosen == SelectSeq(stack, OfType)
    IN  [i \in 1..Len(chosen) |-> chosen[i].name]

\* C13: a second iteration of the sequence one call of list_constraints
\* returned, the stack not changed since the first, yields the same
\* elements as the first: the constraints of the kind on the bone, in stack
\* order.
C13_SecondIterationYieldsAgain ==
    (/\ generator # NoGenerator
     /\ Len(generator.passes) = 2
     /\ ~generator.mutated) =>
        /\ generator.passes[2] = generator.passes[1]
        /\ generator.passes[2] =
               NamesOfType(constraints[generator.bone], generator.constraint_type)

---------------------------------------------------------------------------
(* The eye binding, in Spec.                                               *)

\* The bones the eye binding authors on, with the subtarget of each and
\* whether its constraint adds to the rotation of the bone.
EyeBinding ==
    {[bone |-> TargetEyeL, subtarget |-> ControlEyeL, adds |-> FALSE],
     [bone |-> TargetEyeR, subtarget |-> ControlEyeR, adds |-> FALSE],
     [bone |-> ControlEyeL, subtarget |-> ControlEyes, adds |-> TRUE],
     [bone |-> ControlEyeR, subtarget |-> ControlEyes, adds |-> TRUE]}

\* A constraint as the eye binding authors it for one of its bones.
IsEyeConstraint(con, e) ==
    /\ con.type = "COPY_ROTATION"
    /\ con.target = RawObject
    /\ con.subtarget = e.subtarget
    /\ con.target_space = "LOCAL"
    /\ con.owner_space = "LOCAL"
    /\ e.adds => con.mix_mode = "ADD"

\* An inverted influence driver on the data path of the eye-tracking
\* control.
IsInvertedEyeDriver(d) ==
    /\ d.path = "influence"
    /\ d.expression = <<"1","-","m","m","d","_","u","u","u","n","y","a","a","_",
                        "i","n","f","l","u","e","n","c","e">>
    /\ Len(d.variables) = 1
    /\ d.variables[1].target = RawObject
    /\ d.variables[1].data_path = ControlDataPath("EYE_MMD_UUUNYAA")

\* C14: on a rig whose registry resolves the eye-tracking control, one run of
\* _add_eye_constraints raises nothing and appends exactly one constraint to
\* each of the four eye bones and none to any other bone: a COPY_ROTATION in
\* LOCAL space targeting the armature object, with subtarget the control eye
\* bone of the same side on the left and right eye bones and the both-eyes
\* control bone, in mix mode ADD, on the two control eye bones; each of the
\* four has one driver, an inverted influence driver on the data path of the
\* eye-tracking control, and the run adds no other driver.
C14_Step ==
    (last'.op = "_add_eye_constraints" /\ HasKey(datapaths, "EYE_MMD_UUUNYAA")) =>
        /\ last'.raised = NoError
        /\ \A e \in EyeBinding :
               /\ Len(constraints'[e.bone]) = Len(constraints[e.bone]) + 1
               /\ SubSeq(constraints'[e.bone], 1, Len(constraints[e.bone]))
                      = constraints[e.bone]
               /\ LET con == constraints'[e.bone][Len(constraints'[e.bone])]
                      of_con == {d \in drivers' :
                                    d.bone = e.bone /\ d.constraint = con.name}
                  IN  /\ IsEyeConstraint(con, e)
                      /\ Cardinality(of_con) = 1
                      /\ \A d \in of_con : IsInvertedEyeDriver(d) /\ d \notin drivers
        /\ \A b \in Bones \ {e.bone : e \in EyeBinding} : constraints'[b] = constraints[b]
        /\ drivers \subseteq drivers'
        /\ Cardinality(drivers' \ drivers) = 4

C14_EyeBindingAuthorsFour == [][C14_Step]_vars

\* The eye binding ran on a rig with the eye-tracking control whose left
\* control eye bone held a constraint of the user: the constraint it
\* authored there comes after the user's, and the right control eye bone
\* holds the one the binding authored.
C14_Witness ==
    /\ last.op = "_add_eye_constraints"
    /\ last.raised = NoError
    /\ HasKey(datapaths, "EYE_MMD_UUUNYAA")
    /\ Len(constraints[ControlEyeL]) >= 2
    /\ IsUser(constraints[ControlEyeL][1])
    /\ Len(constraints[ControlEyeR]) = 1
    /\ constraints[ControlEyeR][1].subtarget = ControlEyes
    /\ constraints[ControlEyeR][1].mix_mode = "ADD"
    /\ constraints[TargetEyeL][Len(constraints[TargetEyeL])].subtarget = ControlEyeL

=============================================================================
